---- MODULE Spec2Model ----
(***************************************************************************)
(* Model of src/localcache.py: the localcache class, its in-memory source  *)
(* list and the file system it reads and writes (the repository under      *)
(* ~/.localcache and the user's data directories).                         *)
(*                                                                         *)
(* Paths are sequences of components (<<"data","a","f.txt">> is            *)
(* /data/a/f.txt).  Python values are tagged records: [none |-> TRUE],     *)
(* [path |-> p] (a str naming a path), [int |-> n], [str |-> s],           *)
(* [list |-> <<...>>], [dict |-> f], [method |-> name] (a bound method).   *)
(* File contents are [raw |-> bytes] or [gz |-> ops], the gzip of a pickle *)
(* opcode stream.  last records the latest call: its arguments, the        *)
(* exception it raised, its value and the file handles it left open.       *)
(* merged, lastAdded and saved are history variables; procs holds the      *)
(* callers of the interleaved add_metadata.                                *)
(***************************************************************************)
EXTENDS Integers, Sequences, FiniteSets, TLC

VARIABLES dirs, files, sourceList, last, merged, lastAdded, saved, procs

vars == <<dirs, files, sourceList, last, merged, lastAdded, saved, procs>>

(* ------------------------------ bounds --------------------------------- *)

MaxSources == 2

MaxListLen == 2

(* ------------------------- Python values ------------------------------- *)

NoneV == [none |-> TRUE]

PathV(p) == [path |-> p]

IntV(n) == [int |-> n]

StrV(s) == [str |-> s]

ListV(s) == [list |-> s]

DictV(f) == [dict |-> f]

EmptyFn == [k \in {} |-> NoneV]

IsNone(v) == "none" \in DOMAIN v

IsPathStr(v) == "path" \in DOMAIN v

IsList(v) == "list" \in DOMAIN v

IsDict(v) == "dict" \in DOMAIN v

Ok(v) == [exc |-> "None", value |-> v]

Raise(e) == [exc |-> e, value |-> NoneV]

(* ------------------------- the file system ----------------------------- *)

Home == <<"home">>

DataA == <<"data", "a">>

DataB == <<"data", "b">>

DataC == <<"data", "c">>

FileAF == <<"data", "a", "f.txt">>

FileBF == <<"data", "b", "f.txt">>

NoSuch == <<"does", "not", "exist">>

UserFiles == {FileAF, FileBF}

Contents == {"one", "two"}

Dirname(p) == SubSeq(p, 1, Len(p) - 1)

Basename(p) == p[Len(p)]

Prefixes(p) == {SubSeq(p, 1, n) : n \in 0..Len(p)}

RECURSIVE PathStr(_)
PathStr(p) == IF p = <<>> THEN "" ELSE PathStr(Dirname(p)) \o "/" \o Basename(p)

os_path_exists(p) == p \in dirs \/ p \in DOMAIN files

os_path_isdir(p) == p \in dirs

(* hashlib.sha1(s.encode()).hexdigest() for the strings the model uses *)
Sha1Table ==
  [s \in {"f.txt", "/data/a/f.txt", "/data/b/f.txt", "/does/not/exist",
          "/data/a", "/data/b", "one", "two"} |->
     CASE s = "f.txt" -> "7ad4af83b511907a1db3f4d18c33c63d9b6c4d9e"
       [] s = "/data/a/f.txt" -> "5f0f8dd8e64c1ae8ddd9b55ed7fc8ecb1c96c9e4"
       [] s = "/data/b/f.txt" -> "b9ce4cfea38f4ed3b4eabc625717a45914b9184a"
       [] s = "/does/not/exist" -> "b44b35f02ddc4072ee1732d4a8080d5f88221fc4"
       [] s = "/data/a" -> "59f7a0b8980acdc1b14329632a880b12cccbabfb"
       [] s = "/data/b" -> "30f5700c74d6b0715ec416bd90de7aedc7bdbc28"
       [] s = "one" -> "fe05bcdcdc4928012781a5f1a2a77cbb5398e106"
       [] s = "two" -> "ad782ecdac770fc6eb9a62e44f90873fb97fb26b"]

sha1_hexdigest(s) == Sha1Table[s]

(* hashval[:2] *)
Shard(hashval) == SubSeq(hashval, 1, 2)

(* os.path.join(a, *rest): a must be a str; anything else is a TypeError *)
os_path_join(a, rest) ==
  IF IsPathStr(a) THEN Ok(PathV(a.path \o rest)) ELSE Raise("TypeError")

(* self._get_local_repo_base_path() *)
_get_local_repo_base_path == PathV(Home \o <<".localcache">>)

(* self._get_local_repo_base_path, the bound method itself, not its result *)
_get_local_repo_base_path_method == [method |-> "_get_local_repo_base_path"]

BasePath == _get_local_repo_base_path.path

(* os.makedirs(p, exist_ok = True): an existing directory is accepted *)
os_makedirs_exist_ok(d, f, p) ==
  IF p \in DOMAIN f THEN [exc |-> "FileExistsError", dirs |-> d]
  ELSE IF \E q \in Prefixes(p) : q \in DOMAIN f
       THEN [exc |-> "NotADirectoryError", dirs |-> d]
       ELSE [exc |-> "None", dirs |-> d \cup Prefixes(p)]

(* os.makedirs(p), exist_ok = False: missing parents are created, an       *)
(* existing leaf is an error.  d is the set of directories, f the files.   *)
os_makedirs(d, f, p) ==
  IF p \in d \/ p \in DOMAIN f THEN [exc |-> "FileExistsError", dirs |-> d]
  ELSE IF \E q \in Prefixes(p) : q \in DOMAIN f
       THEN [exc |-> "NotADirectoryError", dirs |-> d]
       ELSE [exc |-> "None", dirs |-> d \cup Prefixes(p)]

(* ------------------------------ state ---------------------------------- *)

NoCall == [op |-> "none", arg1 |-> NoneV, arg2 |-> NoneV, exc |-> "None",
           value |-> NoneV, metadata |-> NoneV, open |-> 0]

Call(op, a1, a2, r, md) ==
  [op |-> op, arg1 |-> a1, arg2 |-> a2, exc |-> r.exc, value |-> r.value,
   metadata |-> md, open |-> 0]

(* the two callers that may run add_metadata at the same time *)
Procs == {1, 2}

IdleProc ==
  [pc |-> "idle", filename |-> NoneV, metadata |-> NoneV, baseMeta |-> NoneV,
   exc |-> "None"]

Init ==
  /\ dirs = {<<>>, Home, <<"data">>, DataA, DataB, DataC}
  /\ files = (FileAF :> [raw |-> "one"]) @@ (FileBF :> [raw |-> "two"])
  /\ sourceList = <<>>
  /\ last = NoCall
  /\ merged = EmptyFn
  /\ lastAdded = EmptyFn
  /\ saved = EmptyFn
  /\ procs = [p \in Procs |-> IdleProc]

(* ------------------------ the environment ------------------------------ *)

(* the user creates or rewrites a file in a data directory *)
EnvWriteFile(p, c) ==
  /\ Dirname(p) \in dirs
  /\ files' = (p :> [raw |-> c]) @@ files
  /\ last' = [NoCall EXCEPT !.op = "env"]
  /\ UNCHANGED <<dirs, sourceList, merged, lastAdded, saved, procs>>

(* the user removes a file *)
EnvRemoveFile(p) ==
  /\ p \in DOMAIN files
  /\ files' = [q \in DOMAIN files \ {p} |-> files[q]]
  /\ last' = [NoCall EXCEPT !.op = "env"]
  /\ UNCHANGED <<dirs, sourceList, merged, lastAdded, saved, procs>>

(* the user removes an empty data directory *)
EnvRemoveDir(p) ==
  /\ p \in dirs
  /\ ~ \E q \in dirs \cup DOMAIN files : q # p /\ p \in Prefixes(q)
  /\ dirs' = dirs \ {p}
  /\ last' = [NoCall EXCEPT !.op = "env"]
  /\ UNCHANGED <<files, sourceList, merged, lastAdded, saved, procs>>

(* the user creates a data directory *)
EnvMakeDir(p) ==
  /\ p \notin dirs
  /\ Dirname(p) \in dirs
  /\ dirs' = dirs \cup {p}
  /\ last' = [NoCall EXCEPT !.op = "env"]
  /\ UNCHANGED <<files, sourceList, merged, lastAdded, saved, procs>>

(* --------------------------- add_source -------------------------------- *)

RECURSIVE SeqsUpTo(_, _)
SeqsUpTo(S, n) ==
  IF n = 0 THEN {<<>>}
  ELSE LET R == SeqsUpTo(S, n - 1) IN R \cup {Append(s, x) : s \in R, x \in S}

DataSources ==
  {NoneV, IntV(5), [tuple |-> <<DataA>>]}
    \cup {PathV(p) : p \in {DataA, DataC, NoSuch, FileAF}}
    \cup {ListV(s) : s \in SeqsUpTo({DataA, DataC, NoSuch}, MaxListLen)}

IsDirItem(item) == os_path_isdir(item)

(* add_source ignoring an invalid single path instead of raising *)
add_source_body_silent(datasource) ==
  IF IsNone(datasource) THEN [exc |-> "TypeError", list |-> sourceList]
  ELSE IF IsList(datasource)
       THEN [exc |-> "None",
             list |-> sourceList \o SelectSeq(datasource.list, IsDirItem)]
       ELSE IF IsPathStr(datasource)
            THEN [exc |-> "None",
                  list |-> IF os_path_isdir(datasource.path)
                           THEN Append(sourceList, datasource.path)
                           ELSE sourceList]
            ELSE [exc |-> "TypeError", list |-> sourceList]

IsNewDirItem(item) ==
  os_path_isdir(item) /\ ~ \E i \in 1..Len(sourceList) : sourceList[i] = item

(* add_source skipping the directories that are registered already *)
add_source_body_dedup(datasource) ==
  IF IsNone(datasource) THEN [exc |-> "TypeError", list |-> sourceList]
  ELSE IF IsList(datasource)
       THEN [exc |-> "None",
             list |-> sourceList \o SelectSeq(datasource.list, IsNewDirItem)]
       ELSE IF IsPathStr(datasource) /\ os_path_isdir(datasource.path)
            THEN [exc |-> "None",
                  list |-> IF IsNewDirItem(datasource.path)
                           THEN Append(sourceList, datasource.path)
                           ELSE sourceList]
            ELSE [exc |-> "TypeError", list |-> sourceList]

(* the body of add_source: the exception raised and the new _sourceList *)
add_source_body(datasource) ==
  IF IsNone(datasource) THEN [exc |-> "TypeError", list |-> sourceList]
  ELSE IF IsList(datasource)
       THEN [exc |-> "None",
             list |-> sourceList \o SelectSeq(datasource.list, IsDirItem)]
       ELSE IF IsPathStr(datasource) /\ os_path_isdir(datasource.path)
            THEN [exc |-> "None", list |-> Append(sourceList, datasource.path)]
            ELSE [exc |-> "TypeError", list |-> sourceList]

add_source(datasource) ==
  LET r == add_source_body(datasource) IN
  /\ Len(r.list) <= MaxSources
  /\ sourceList' = r.list
  /\ last' = Call("add_source", datasource, NoneV, [exc |-> r.exc, value |-> NoneV], NoneV)
  /\ UNCHANGED <<dirs, files, merged, lastAdded, saved, procs>>

(* --------------------------- init_setup -------------------------------- *)

HexDigits == "0123456789abcdef"

(* hex(val)[-1] *)
HexLast(val) == SubSeq(HexDigits, (val % 16) + 1, (val % 16) + 1)

HexRange == 16

(* hexvals over range(15): the digit f is missing *)
hexvals_range15 == [i \in 1..(HexRange - 1) |-> HexLast(i - 1)]

hexvals == [i \in 1..HexRange |-> HexLast(i - 1)]

(* itertools.product(hexvals, hexvals), formatted "{}{}" *)
combs ==
  LET n == Len(hexvals) IN
  [k \in 1..(n * n) |-> hexvals[((k - 1) \div n) + 1] \o hexvals[((k - 1) % n) + 1]]

pathList == << <<"meta", "dir">>, <<"meta", "files">>, <<"cache">> >>

(* the paths init_setup passes to os.makedirs, in order: the first loop,   *)
(* then cache/<item> and meta/file/<item> for each item of combs           *)
InitSetupPaths ==
  [i \in 1..Len(pathList) |-> BasePath \o pathList[i]]
    \o [k \in 1..(2 * Len(combs)) |->
          IF k % 2 = 1 THEN BasePath \o <<"cache", combs[(k + 1) \div 2]>>
          ELSE BasePath \o <<"meta", "file", combs[k \div 2]>>]

(* the successive os.makedirs calls paths[lo..hi], in order; the first     *)
(* failure propagates and leaves what was created before it (the range is  *)
(* split in halves to keep the evaluation shallow)                         *)
RECURSIVE MakeAll(_, _, _, _, _)
MakeAll(d, f, paths, lo, hi) ==
  IF lo > hi THEN [exc |-> "None", dirs |-> d]
  ELSE IF lo = hi THEN os_makedirs(d, f, paths[lo])
       ELSE LET mid == (lo + hi) \div 2
                r == MakeAll(d, f, paths, lo, mid)
            IN IF r.exc # "None" THEN r ELSE MakeAll(r.dirs, f, paths, mid + 1, hi)

init_setup ==
  LET r == MakeAll(dirs, files, InitSetupPaths, 1, Len(InitSetupPaths)) IN
  /\ dirs' = r.dirs
  /\ last' = Call("init_setup", NoneV, NoneV, [exc |-> r.exc, value |-> NoneV], NoneV)
  /\ UNCHANGED <<files, sourceList, merged, lastAdded, saved, procs>>

(* --------------------------- blob store -------------------------------- *)

(* one opcode of a pickle stream; the argument is [u |-> s], [i |-> n] or None *)
Opcode(op, arg) == [op |-> op, arg |-> arg]

RECURSIVE PickleVal(_)
RECURSIVE PickleItems(_, _)
RECURSIVE PickleListItems(_, _)

(* pickle.dump of one value: the opcodes that rebuild it *)
PickleVal(v) ==
  IF IsNone(v) THEN <<Opcode("NONE", NoneV)>>
  ELSE IF "int" \in DOMAIN v THEN <<Opcode("BININT", [i |-> v.int])>>
  ELSE IF "str" \in DOMAIN v THEN <<Opcode("BINUNICODE", [u |-> v.str])>>
  ELSE IF IsList(v)
       THEN IF v.list = <<>> THEN <<Opcode("EMPTY_LIST", NoneV)>>
            ELSE <<Opcode("EMPTY_LIST", NoneV), Opcode("MARK", NoneV)>>
                   \o PickleListItems(v.list, 1) \o <<Opcode("APPENDS", NoneV)>>
  ELSE IF DOMAIN v.dict = {} THEN <<Opcode("EMPTY_DICT", NoneV)>>
       ELSE <<Opcode("EMPTY_DICT", NoneV), Opcode("MARK", NoneV)>>
              \o PickleItems(v.dict, DOMAIN v.dict) \o <<Opcode("SETITEMS", NoneV)>>

(* the items of a list, all of them str *)
PickleListItems(items, i) ==
  IF i > Len(items) THEN <<>>
  ELSE <<Opcode("BINUNICODE", [u |-> items[i]])>> \o PickleListItems(items, i + 1)

(* the key, value pairs of a dict *)
PickleItems(f, keys) ==
  IF keys = {} THEN <<>>
  ELSE LET k == CHOOSE x \in keys : TRUE IN
       <<Opcode("BINUNICODE", [u |-> k])>> \o PickleVal(f[k])
         \o PickleItems(f, keys \ {k})

(* pickle.dumps(data, protocol = HIGHEST_PROTOCOL) *)
Pickle(data) ==
  <<Opcode("PROTO", NoneV)>> \o PickleVal(data) \o <<Opcode("STOP", NoneV)>>

(* the position of the topmost MARK of the unpickler's stack, 0 if none *)
TopMark(stack) ==
  LET marks == {j \in 1..Len(stack) : "mark" \in DOMAIN stack[j]} IN
  IF marks = {} THEN 0 ELSE CHOOSE j \in marks : \A k \in marks : k <= j

(* a stack entry as a value: a unicode object is a str *)
ToVal(e) == IF "u" \in DOMAIN e THEN StrV(e.u) ELSE e

RECURSIVE SetItems(_, _, _)
SetItems(f, pairs, i) ==
  IF i > Len(pairs) THEN f
  ELSE SetItems((pairs[i].u :> ToVal(pairs[i + 1])) @@ f, pairs, i + 2)

(* pickle.load: the unpickler's stack machine run from opcode i *)
RECURSIVE Unpickle(_, _, _)
Unpickle(ops, i, stack) ==
  IF i > Len(ops) THEN Raise("EOFError")
  ELSE LET o == ops[i]
           n == Len(stack)
           m == TopMark(stack)
       IN
       IF o.op = "PROTO" THEN Unpickle(ops, i + 1, stack)
       ELSE IF o.op = "NONE" THEN Unpickle(ops, i + 1, Append(stack, NoneV))
       ELSE IF o.op = "BININT" THEN Unpickle(ops, i + 1, Append(stack, IntV(o.arg.i)))
       ELSE IF o.op = "BINUNICODE" THEN Unpickle(ops, i + 1, Append(stack, o.arg))
       ELSE IF o.op = "EMPTY_LIST" THEN Unpickle(ops, i + 1, Append(stack, ListV(<<>>)))
       ELSE IF o.op = "EMPTY_DICT" THEN Unpickle(ops, i + 1, Append(stack, DictV(EmptyFn)))
       ELSE IF o.op = "MARK" THEN Unpickle(ops, i + 1, Append(stack, [mark |-> TRUE]))
       ELSE IF o.op = "APPENDS"
            THEN IF m < 2 THEN Raise("UnpicklingError")
                 ELSE Unpickle(ops, i + 1,
                        Append(SubSeq(stack, 1, m - 2),
                               ListV(stack[m - 1].list
                                       \o [k \in 1..(n - m) |-> stack[m + k].u])))
       ELSE IF o.op = "SETITEMS"
            THEN IF m < 2 THEN Raise("UnpicklingError")
                 ELSE Unpickle(ops, i + 1,
                        Append(SubSeq(stack, 1, m - 2),
                               DictV(SetItems(stack[m - 1].dict,
                                              SubSeq(stack, m + 1, n), 1))))
       ELSE IF o.op = "STOP" /\ n > 0 THEN Ok(ToVal(stack[n]))
       ELSE Raise("UnpicklingError")

(* gzip.open(filename, 'wb') + pickle.dump(data) + close: the file's bytes *)
GzipPickle(data) == [gz |-> Pickle(data)]

(* a value pickle cannot serialize (a lambda, an open file) *)
Unpicklable == [unpicklable |-> "lambda"]

(* _save_and_compress writing into a missing directory as well *)
_save_and_compress_anywhere(d, f, filename, data) ==
  IF filename \in d THEN [exc |-> "IsADirectoryError", files |-> f, open |-> 0]
  ELSE IF "unpicklable" \in DOMAIN data
       THEN [exc |-> "PicklingError", files |-> (filename :> [gz |-> <<>>]) @@ f,
             open |-> 1]
       ELSE [exc |-> "None", files |-> (filename :> GzipPickle(data)) @@ f,
             open |-> 0]

(* _save_and_compress keeping a file that is already there *)
_save_and_compress_keep(d, f, filename, data) ==
  IF filename \in d THEN [exc |-> "IsADirectoryError", files |-> f, open |-> 0]
  ELSE IF Dirname(filename) \notin d
       THEN [exc |-> "FileNotFoundError", files |-> f, open |-> 0]
       ELSE IF "unpicklable" \in DOMAIN data
            THEN [exc |-> "PicklingError", files |-> (filename :> [gz |-> <<>>]) @@ f,
                  open |-> 1]
            ELSE [exc |-> "None", files |-> f @@ (filename :> GzipPickle(data)),
                  open |-> 0]

(* _save_and_compress(filename, data) on directories d and files f: an     *)
(* existing entry is removed first, then the file is opened and written;   *)
(* open is the number of handles the call leaves open (the handle is       *)
(* closed at line 72 only, after pickle.dump returned)                     *)
_save_and_compress(d, f, filename, data) ==
  IF filename \in d THEN [exc |-> "IsADirectoryError", files |-> f, open |-> 0]
  ELSE IF Dirname(filename) \notin d
       THEN [exc |-> "FileNotFoundError", files |-> f, open |-> 0]
       ELSE IF "unpicklable" \in DOMAIN data
            THEN [exc |-> "PicklingError", files |-> (filename :> [gz |-> <<>>]) @@ f,
                  open |-> 1]
            ELSE [exc |-> "None", files |-> (filename :> GzipPickle(data)) @@ f,
                  open |-> 0]

(* _load_compressed_file reading whatever bytes the file holds as a pickle *)
_load_compressed_file_raw(d, f, filename) ==
  IF filename \in d \/ filename \in DOMAIN f
  THEN IF filename \in d THEN ("open" :> 0) @@ Raise("IsADirectoryError")
       ELSE IF "gz" \in DOMAIN f[filename]
            THEN LET r == Unpickle(f[filename].gz, 1, <<>>) IN
                 ("open" :> IF r.exc = "None" THEN 0 ELSE 1) @@ r
            ELSE ("open" :> 0) @@ Ok(StrV(f[filename].raw))
  ELSE ("open" :> 0) @@ Ok(NoneV)

(* _load_compressed_file(filename): open is the number of handles the call *)
(* leaves open (the handle is closed at line 81 only, after pickle.load    *)
(* returned)                                                               *)
_load_compressed_file(d, f, filename) ==
  IF filename \in d \/ filename \in DOMAIN f
  THEN IF filename \in d THEN ("open" :> 0) @@ Raise("IsADirectoryError")
       ELSE IF "gz" \in DOMAIN f[filename]
            THEN LET r == Unpickle(f[filename].gz, 1, <<>>) IN
                 ("open" :> IF r.exc = "None" THEN 0 ELSE 1) @@ r
            ELSE ("open" :> 1) @@ Raise("BadGzipFile")
  ELSE ("open" :> 0) @@ Raise("FileNotFoundError")

StateFile == BasePath \o <<"sources.state">>

save_states ==
  LET r == _save_and_compress(dirs, files, StateFile,
                              DictV("datasource" :> ListV(sourceList))) IN
  /\ files' = r.files
  /\ last' = [Call("save_states", NoneV, NoneV, [exc |-> r.exc, value |-> NoneV], NoneV)
                EXCEPT !.open = r.open]
  /\ saved' = IF r.exc = "None"
              THEN (StateFile :> DictV("datasource" :> ListV(sourceList))) @@ saved
              ELSE saved
  /\ UNCHANGED <<dirs, sourceList, merged, lastAdded, procs>>

(* load_states letting the exceptions of the load propagate *)
load_states_body_raising(d, f, list) ==
  LET r == _load_compressed_file(d, f, StateFile) IN
  IF r.exc # "None" THEN [exc |-> r.exc, list |-> list, open |-> r.open]
  ELSE IF ~IsDict(r.value) THEN [exc |-> "TypeError", list |-> list, open |-> r.open]
  ELSE IF "datasource" \notin DOMAIN r.value.dict
       THEN [exc |-> "KeyError", list |-> list, open |-> r.open]
       ELSE [exc |-> "None",
             list |-> r.value.dict["datasource"].list, open |-> r.open]

(* load_states extending the list with the loaded one *)
load_states_body_extending(d, f, list) ==
  LET r == _load_compressed_file(d, f, StateFile) IN
  IF r.exc = "None" /\ IsDict(r.value) /\ "datasource" \in DOMAIN r.value.dict
  THEN [exc |-> "None", list |-> list \o r.value.dict["datasource"].list,
        open |-> r.open]
  ELSE [exc |-> "None", list |-> list, open |-> r.open]

(* the body of load_states on the list `list`: any exception of the load   *)
(* or of states['datasource'] is swallowed by the bare except              *)
load_states_body(d, f, list) ==
  LET r == _load_compressed_file(d, f, StateFile) IN
  IF r.exc = "None" /\ IsDict(r.value) /\ "datasource" \in DOMAIN r.value.dict
  THEN [exc |-> "None", list |-> r.value.dict["datasource"].list, open |-> r.open]
  ELSE [exc |-> "None", list |-> list, open |-> r.open]

load_states ==
  LET r == load_states_body(dirs, files, sourceList) IN
  /\ sourceList' = r.list
  /\ last' = [Call("load_states", NoneV, NoneV, [exc |-> r.exc, value |-> NoneV], NoneV)
                EXCEPT !.open = r.open]
  /\ UNCHANGED <<dirs, files, merged, lastAdded, saved, procs>>

(* ------------------------- add_file_to_cache --------------------------- *)

(* shutil.copy(src, dst) *)
shutil_copy(d, f, src, dst) ==
  IF src \notin DOMAIN f
  THEN [exc |-> IF src \in d THEN "IsADirectoryError" ELSE "FileNotFoundError",
        files |-> f]
  ELSE LET target == IF dst \in d THEN dst \o <<Basename(src)>> ELSE dst IN
       IF Dirname(target) \notin d THEN [exc |-> "FileNotFoundError", files |-> f]
       ELSE IF target \in d THEN [exc |-> "IsADirectoryError", files |-> f]
       ELSE [exc |-> "None", files |-> (target :> f[src]) @@ f]

(* add_file_to_cache(filename, datastore): filename is a base name when    *)
(* datastore is given and a full path otherwise                            *)
add_file_to_cache_body(filename, datastore) ==
  LET fullpath == IF ~IsNone(datastore) THEN datastore.path \o filename.path
                  ELSE filename.path
      name == IF ~IsNone(datastore) THEN filename.path
              ELSE <<Basename(filename.path)>>
      hashval == sha1_hexdigest(Basename(name))
      target == os_path_join(_get_local_repo_base_path_method,
                             <<"cache", Shard(hashval)>> \o name)
  IN IF target.exc # "None" THEN [exc |-> target.exc, files |-> files]
     ELSE shutil_copy(dirs, files, fullpath, target.value.path)

(* the cache entry the layout assigns to a base name *)
CacheEntry(name) == BasePath \o <<"cache", Shard(sha1_hexdigest(name)), name>>

AddFileArgs ==
  {<<PathV(<<"f.txt">>), PathV(D)>> : D \in {DataA, DataB}}
    \cup {<<PathV(p), NoneV>> : p \in UserFiles}

add_file_to_cache(filename, datastore) ==
  LET r == add_file_to_cache_body(filename, datastore)
      fullpath == IF ~IsNone(datastore) THEN datastore.path \o filename.path
                  ELSE filename.path
  IN
  /\ files' = r.files
  /\ last' = Call("add_file_to_cache", filename, datastore,
                  [exc |-> r.exc, value |-> NoneV], NoneV)
  /\ lastAdded' =
       IF fullpath \in DOMAIN files /\ Dirname(CacheEntry(Basename(fullpath))) \in dirs
       THEN (Basename(fullpath) :> files[fullpath]) @@ lastAdded
       ELSE lastAdded
  /\ UNCHANGED <<dirs, sourceList, merged, saved, procs>>

(* ------------------------------ metadata ------------------------------- *)

(* _hash_file_contents(filename): sha1 of the file's bytes *)
_hash_file_contents(d, f, filename) ==
  IF ~(filename \in d \/ filename \in DOMAIN f) THEN Raise("FileNotFoundError")
  ELSE IF filename \in d THEN Raise("IsADirectoryError")
       ELSE Ok(StrV(sha1_hexdigest(f[filename].raw)))

(* _create_metadata(filename) *)
_create_metadata(d, f, filename) ==
  LET h == _hash_file_contents(d, f, filename) IN
  IF h.exc # "None" THEN h ELSE Ok(DictV("sha1" :> h.value))

(* the metadata file the layout assigns to a file name *)
MetaFile(filename) ==
  LET hashval == sha1_hexdigest(PathStr(filename)) IN
  BasePath \o <<"meta", "file", Shard(hashval), hashval \o ".meta">>

(* metaFilename as _retrieve_metadata and _write_metadata compute it *)
metaFilename(filename) ==
  LET hashval == sha1_hexdigest(PathStr(filename)) IN
  os_path_join(_get_local_repo_base_path_method,
               <<"meta", "file", Shard(hashval), hashval \o ".meta">>)

(* _retrieve_metadata without the check that filename exists *)
_retrieve_metadata_unchecked(d, f, filename) ==
  LET m == metaFilename(filename) IN
  IF m.exc # "None" THEN Raise(m.exc)
  ELSE IF m.value.path \in d \/ m.value.path \in DOMAIN f
       THEN _load_compressed_file(d, f, m.value.path)
       ELSE _create_metadata(d, f, filename)

(* _retrieve_metadata(filename) *)
_retrieve_metadata(d, f, filename) ==
  IF ~(filename \in d \/ filename \in DOMAIN f) THEN Raise("FileNotFoundError")
  ELSE LET m == metaFilename(filename) IN
       IF m.exc # "None" THEN Raise(m.exc)
       ELSE IF m.value.path \in d \/ m.value.path \in DOMAIN f
            THEN _load_compressed_file(d, f, m.value.path)
            ELSE _create_metadata(d, f, filename)

(* _write_metadata(filename, metadata): the exception and the files after *)
_write_metadata_body(d, f, filename, metadata) ==
  IF ~(filename \in d \/ filename \in DOMAIN f)
  THEN [exc |-> "FileNotFoundError", files |-> f, open |-> 0]
  ELSE LET m == metaFilename(filename) IN
       IF m.exc # "None" THEN [exc |-> m.exc, files |-> f, open |-> 0]
       ELSE _save_and_compress(d, f, m.value.path, metadata)

(* the type object dict *)
DictType == [type |-> "dict"]

(* lines 201-202: "metadata is not dict" compares with the type object *)
WrapMetadata(metadata) ==
  IF metadata # DictType THEN DictV("data" :> metadata) ELSE metadata

(* dict.update: the keys of new replace those of old *)
DictUpdate(old, new) == new @@ old

(* add_metadata(filename, metadata): the exception, the local metadata and *)
(* the local baseMeta when the call leaves                                 *)
add_metadata_body(filename, metadata) ==
  IF IsNone(filename) \/ IsNone(metadata)
  THEN [exc |-> "AssertionError", metadata |-> metadata, baseMeta |-> NoneV]
  ELSE LET wrapped == WrapMetadata(metadata)
           r == _retrieve_metadata(dirs, files, filename.path)
       IN IF r.exc # "None"
          THEN [exc |-> r.exc, metadata |-> wrapped, baseMeta |-> NoneV]
          ELSE [exc |-> "None", metadata |-> wrapped,
                baseMeta |->
                  IF "user" \in DOMAIN r.value.dict
                  THEN DictV([r.value.dict EXCEPT !["user"] =
                                DictV(DictUpdate(@.dict, wrapped.dict))])
                  ELSE DictV(("user" :> wrapped) @@ r.value.dict)]

MetaNames == {PathV(FileAF), PathV(NoSuch), NoneV}

MetaValues ==
  {DictV("a" :> IntV(1)), DictV("b" :> IntV(2)), DictV("a" :> IntV(3)),
   StrV("x"), NoneV}

(* the mapping the documentation says a call contributes to `user` *)
Contribution(metadata) ==
  IF IsDict(metadata) THEN metadata.dict ELSE "data" :> metadata

add_metadata(filename, metadata) ==
  LET r == add_metadata_body(filename, metadata) IN
  /\ last' = Call("add_metadata", filename, metadata,
                  [exc |-> r.exc, value |-> NoneV], r.metadata)
  /\ merged' =
       IF /\ ~IsNone(filename)
          /\ ~IsNone(metadata)
          /\ filename.path \in DOMAIN files
          /\ Dirname(MetaFile(filename.path)) \in dirs
       THEN (filename.path :>
               DictUpdate(IF filename.path \in DOMAIN merged
                          THEN merged[filename.path] ELSE EmptyFn,
                          Contribution(metadata))) @@ merged
       ELSE merged
  /\ UNCHANGED <<dirs, files, sourceList, lastAdded, saved, procs>>

(* get_metadata(filename) *)
get_metadata_body(filename) ==
  IF IsNone(filename) THEN Raise("AssertionError")
  ELSE LET r == _retrieve_metadata(dirs, files, filename.path) IN
       IF r.exc # "None" THEN r
       ELSE IF "user" \in DOMAIN r.value.dict THEN Ok(r.value.dict["user"])
            ELSE Ok(DictV(EmptyFn))

get_metadata(filename) ==
  /\ last' = Call("get_metadata", filename, NoneV, get_metadata_body(filename), NoneV)
  /\ UNCHANGED <<dirs, files, sourceList, merged, lastAdded, saved, procs>>

(* ----------------------- restart and state file ------------------------ *)

(* a new process constructs a new localcache: __init__ empties the list *)
Restart ==
  /\ sourceList' = <<>>
  /\ last' = [NoCall EXCEPT !.op = "restart"]
  /\ UNCHANGED <<dirs, files, merged, lastAdded, saved, procs>>

(* what sources.state may hold that is not a saved source list: bytes that *)
(* are no gzip stream, an empty gzip stream, a pickled list, a pickled     *)
(* mapping without a datasource entry                                      *)
BadStateContents ==
  {[raw |-> "garbage"], [gz |-> <<>>], GzipPickle(ListV(<<DataA>>)),
   GzipPickle(DictV("other" :> ListV(<<DataA>>)))}

(* something else than save_states overwrites a blob *)
EnvOverwrite(p, c) ==
  /\ Dirname(p) \in dirs
  /\ p \notin dirs
  /\ files' = (p :> c) @@ files
  /\ saved' = [q \in DOMAIN saved \ {p} |-> saved[q]]
  /\ last' = [NoCall EXCEPT !.op = "env"]
  /\ UNCHANGED <<dirs, sourceList, merged, lastAdded, procs>>

(* something removes a blob *)
EnvRemoveBlob(p) ==
  /\ p \in DOMAIN files
  /\ files' = [q \in DOMAIN files \ {p} |-> files[q]]
  /\ saved' = [q \in DOMAIN saved \ {p} |-> saved[q]]
  /\ last' = [NoCall EXCEPT !.op = "env"]
  /\ UNCHANGED <<dirs, sourceList, merged, lastAdded, procs>>

StateSources == {PathV(DataA), PathV(DataC), ListV(<<DataC, DataA>>)}

(* ------------------------- blob store calls ---------------------------- *)

BlobFile == DataA \o <<"blob.sav">>

OrphanFile == <<"data", "zz", "blob.sav">>

BlobPaths == {StateFile, BlobFile, OrphanFile}

BlobValues ==
  {StrV("x"), ListV(<<>>), ListV(<<DataA, DataC>>),
   DictV("datasource" :> ListV(<<DataA>>)),
   DictV(("sha1" :> StrV("fe05bcdcdc4928012781a5f1a2a77cbb5398e106"))
           @@ ("user" :> DictV("a" :> IntV(1)))),
   Unpicklable}

(* a call of _save_and_compress(filename, data) *)
BlobSave(filename, data) ==
  LET r == _save_and_compress(dirs, files, filename, data) IN
  /\ files' = r.files
  /\ last' = [Call("_save_and_compress", PathV(filename), data,
                   [exc |-> r.exc, value |-> NoneV], NoneV) EXCEPT !.open = r.open]
  /\ saved' = IF r.exc = "None" THEN (filename :> data) @@ saved
              ELSE IF r.files = files THEN saved
                   ELSE [q \in DOMAIN saved \ {filename} |-> saved[q]]
  /\ UNCHANGED <<dirs, sourceList, merged, lastAdded, procs>>

(* a call of _load_compressed_file(filename) *)
BlobLoad(filename) ==
  LET r == _load_compressed_file(dirs, files, filename) IN
  /\ last' = [Call("_load_compressed_file", PathV(filename), NoneV,
                   [exc |-> r.exc, value |-> r.value], NoneV) EXCEPT !.open = r.open]
  /\ UNCHANGED <<dirs, files, sourceList, merged, lastAdded, saved, procs>>

(* a call of _hash_file_contents(filename): the with statement closes the  *)
(* file on every path                                                      *)
HashFile(filename) ==
  /\ last' = Call("_hash_file_contents", PathV(filename), NoneV,
                  _hash_file_contents(dirs, files, filename), NoneV)
  /\ UNCHANGED <<dirs, files, sourceList, merged, lastAdded, saved, procs>>

(* ----------------------------- scan_files ------------------------------ *)

SubA == DataA \o <<"sub">>

DirCF == DataC \o <<"f.txt">>

(* the names os.listdir(p) returns, as a set *)
Entries(d, f, p) == {Basename(q) : q \in {x \in d \cup DOMAIN f : x # <<>> /\ Dirname(x) = p}}

(* the orders in which os.listdir may return a set of names *)
RECURSIVE Orderings(_)
Orderings(S) ==
  IF S = {} THEN {<<>>}
  ELSE UNION {{<<x>> \o t : t \in Orderings(S \ {x})} : x \in S}

(* scan_files(datasource) run with working directory cwd, os.listdir       *)
(* returning listing: line 51 tests os.path.isdir(item) on the bare name,  *)
(* which the system resolves against the working directory                 *)
scan_files_body(d, f, datasource, cwd, listing) ==
  IF ~(datasource \in d \/ datasource \in DOMAIN f)
  THEN [exc |-> "FileNotFoundError", files |-> f, open |-> 0, fileList |-> <<>>]
  ELSE IF datasource \notin d
       THEN [exc |-> "NotADirectoryError", files |-> f, open |-> 0, fileList |-> <<>>]
       ELSE LET NotDirInCwd(item) == (cwd \o <<item>>) \notin d
                fileList == SelectSeq(listing, NotDirInCwd)
                outFile == sha1_hexdigest(PathStr(datasource)) \o ".sav"
                r == _save_and_compress(d, f, BasePath \o <<"meta", "dir", outFile>>,
                                        DictV("fileList" :> ListV(fileList)))
            IN ("fileList" :> fileList) @@ r

(* the snapshot file the layout assigns to a source *)
SnapshotFile(datasource) ==
  BasePath \o <<"meta", "dir", sha1_hexdigest(PathStr(datasource)) \o ".sav">>

ScanSources == {DataA, DataB, NoSuch}

WorkingDirs == {DataA, DataB, DataC}

scan_files(datasource, cwd) ==
  \E listing \in Orderings(Entries(dirs, files, datasource)) :
    LET r == scan_files_body(dirs, files, datasource, cwd, listing) IN
    /\ files' = r.files
    /\ last' = [Call("scan_files", PathV(datasource), PathV(cwd),
                     [exc |-> r.exc, value |-> NoneV], NoneV) EXCEPT !.open = r.open]
    /\ saved' = IF r.exc = "None"
                THEN (SnapshotFile(datasource) :> DictV("fileList" :> ListV(r.fileList)))
                       @@ saved
                ELSE saved
    /\ UNCHANGED <<dirs, sourceList, merged, lastAdded, procs>>

(* --------------------------- _write_metadata --------------------------- *)

MetaRecords ==
  {DictV(("sha1" :> StrV("fe05bcdcdc4928012781a5f1a2a77cbb5398e106"))
           @@ ("user" :> DictV("a" :> IntV(1)))),
   DictV("sha1" :> StrV("fe05bcdcdc4928012781a5f1a2a77cbb5398e106"))}

(* a call of _write_metadata(filename, metadata) *)
write_metadata(filename, metadata) ==
  LET r == _write_metadata_body(dirs, files, filename, metadata) IN
  /\ files' = r.files
  /\ last' = [Call("_write_metadata", PathV(filename), metadata,
                   [exc |-> r.exc, value |-> NoneV], NoneV) EXCEPT !.open = r.open]
  /\ saved' = IF r.exc = "None" THEN (MetaFile(filename) :> metadata) @@ saved
              ELSE saved
  /\ UNCHANGED <<dirs, sourceList, merged, lastAdded, procs>>

(* ---------------------- interleaved add_metadata ----------------------- *)

(* lines 199-202 in caller p: the two asserts and the wrapping *)
AmBegin(p, filename, metadata) ==
  /\ procs[p].pc = "idle"
  /\ procs' = [procs EXCEPT ![p] =
       IF IsNone(filename) \/ IsNone(metadata)
       THEN [pc |-> "done", filename |-> filename, metadata |-> metadata,
             baseMeta |-> NoneV, exc |-> "AssertionError"]
       ELSE [pc |-> "retrieve", filename |-> filename,
             metadata |-> WrapMetadata(metadata), baseMeta |-> NoneV,
             exc |-> "None"]]
  /\ last' = [NoCall EXCEPT !.op = "add_metadata_enter", !.arg1 = filename,
                            !.arg2 = metadata]
  /\ UNCHANGED <<dirs, files, sourceList, merged, lastAdded, saved>>

(* lines 205-209 in caller p: retrieve the record, merge into the local    *)
(* baseMeta and return; nothing is written                                 *)
AmRetrieveMerge(p) ==
  /\ procs[p].pc = "retrieve"
  /\ LET r == _retrieve_metadata(dirs, files, procs[p].filename.path)
         wrapped == procs[p].metadata
     IN /\ procs' = [procs EXCEPT ![p] =
             IF r.exc # "None"
             THEN [@ EXCEPT !.pc = "done", !.exc = r.exc]
             ELSE [@ EXCEPT !.pc = "done",
                     !.baseMeta =
                       IF "user" \in DOMAIN r.value.dict
                       THEN DictV([r.value.dict EXCEPT !["user"] =
                                     DictV(DictUpdate(@.dict, wrapped.dict))])
                       ELSE DictV(("user" :> wrapped) @@ r.value.dict)]]
        /\ last' = Call("add_metadata", procs[p].filename, procs[p].metadata,
                        [exc |-> r.exc, value |-> NoneV], wrapped)
  /\ UNCHANGED <<dirs, files, sourceList, merged, lastAdded, saved>>

(* caller p is ready for its next call *)
AmReturn(p) ==
  /\ procs[p].pc = "done"
  /\ procs' = [procs EXCEPT ![p] = IdleProc]
  /\ last' = [NoCall EXCEPT !.op = "add_metadata_leave"]
  /\ UNCHANGED <<dirs, files, sourceList, merged, lastAdded, saved>>

ConcurrentValues == {DictV("a" :> IntV(1)), DictV("b" :> IntV(2)), NoneV}

(* --------------------------- specification ----------------------------- *)

(* the source registry and the repository layout *)
NextRegistry ==
  \/ EnvRemoveDir(DataC)
  \/ EnvMakeDir(DataC)
  \/ \E datasource \in DataSources : add_source(datasource)
  \/ init_setup
  \/ save_states
  \/ load_states

(* the file cache and the metadata manager *)
NextCache ==
  \/ \E p \in UserFiles, c \in Contents : EnvWriteFile(p, c)
  \/ \E p \in UserFiles : EnvRemoveFile(p)
  \/ init_setup
  \/ \E a \in AddFileArgs : add_file_to_cache(a[1], a[2])
  \/ \E filename \in MetaNames, metadata \in MetaValues : add_metadata(filename, metadata)
  \/ \E filename \in MetaNames : get_metadata(filename)

(* the persisted source list across restarts *)
NextState ==
  \/ Restart
  \/ \E c \in BadStateContents : EnvOverwrite(StateFile, c)
  \/ EnvRemoveBlob(StateFile)
  \/ EnvRemoveDir(DataC)
  \/ EnvMakeDir(DataC)
  \/ \E datasource \in StateSources : add_source(datasource)
  \/ init_setup
  \/ save_states
  \/ load_states

(* the blob store called directly *)
NextBlob ==
  \/ \E p \in BlobPaths, v \in BlobValues : BlobSave(p, v)
  \/ \E p \in BlobPaths : BlobLoad(p)
  \/ \E p \in {FileAF, NoSuch} : HashFile(p)
  \/ \E p \in {StateFile, BlobFile} : EnvOverwrite(p, [raw |-> "garbage"])
  \/ init_setup
  \/ save_states
  \/ load_states

(* the directory scanner *)
NextScan ==
  \/ EnvMakeDir(SubA)
  \/ EnvRemoveDir(SubA)
  \/ EnvMakeDir(DirCF)
  \/ EnvRemoveFile(FileAF)
  \/ EnvWriteFile(FileAF, "one")
  \/ init_setup
  \/ \E datasource \in ScanSources, cwd \in WorkingDirs : scan_files(datasource, cwd)

(* every operation that writes into the repository *)
NextWriters ==
  \/ EnvRemoveFile(FileAF)
  \/ EnvWriteFile(FileAF, "one")
  \/ add_source(PathV(DataA))
  \/ init_setup
  \/ save_states
  \/ \E cwd \in {DataA, DataB} : scan_files(DataA, cwd)
  \/ \E a \in AddFileArgs : add_file_to_cache(a[1], a[2])
  \/ add_metadata(PathV(FileAF), DictV("a" :> IntV(1)))
  \/ \E filename \in {FileAF, NoSuch}, metadata \in MetaRecords :
       write_metadata(filename, metadata)

(* two callers of add_metadata on the same file, interleaved *)
NextConcurrent ==
  \/ init_setup
  \/ \E p \in Procs, metadata \in ConcurrentValues :
       AmBegin(p, PathV(FileAF), metadata)
  \/ \E p \in Procs : AmRetrieveMerge(p)
  \/ \E p \in Procs : AmReturn(p)

(* metadata access while files and stored records come and go *)
NextMeta ==
  \/ EnvRemoveFile(FileAF)
  \/ EnvWriteFile(FileAF, "one")
  \/ init_setup
  \/ \E metadata \in MetaRecords : EnvOverwrite(MetaFile(FileAF), GzipPickle(metadata))
  \/ EnvRemoveBlob(MetaFile(FileAF))
  \/ \E filename \in {PathV(FileAF), PathV(NoSuch)} : get_metadata(filename)
  \/ \E filename \in {PathV(FileAF), PathV(NoSuch)} :
       add_metadata(filename, DictV("a" :> IntV(1)))
  \/ \E filename \in {FileAF, NoSuch}, metadata \in MetaRecords :
       write_metadata(filename, metadata)

Next ==
  \/ NextRegistry \/ NextCache \/ NextState \/ NextBlob \/ NextScan
  \/ NextWriters \/ NextConcurrent \/ NextMeta

Spec == Init /\ [][Next]_vars

SpecRegistry == Init /\ [][NextRegistry]_vars

SpecCache == Init /\ [][NextCache]_vars

SpecState == Init /\ [][NextState]_vars

SpecBlob == Init /\ [][NextBlob]_vars

SpecScan == Init /\ [][NextScan]_vars

SpecWriters == Init /\ [][NextWriters]_vars

SpecConcurrent == Init /\ [][NextConcurrent]_vars

SpecMeta == Init /\ [][NextMeta]_vars

(* ------------------------------ claims --------------------------------- *)

(* the repository has been initialized: init_setup's first directory is there *)
Initialized == (BasePath \o <<"meta", "dir">>) \in dirs

(* the call recorded in last named an existing file as its first argument *)
LastFileExists == IsPathStr(last.arg1) /\ last.arg1.path \in DOMAIN files

(* C1: for a file that exists, get_metadata after add_metadata calls       *)
(* returns the shallow merge, in call order, of the mappings added.        *)
C1_MergeReturned ==
  (last.op = "get_metadata" /\ LastFileExists /\ last.arg1.path \in DOMAIN merged)
    => (last.exc = "None" /\ last.value = DictV(merged[last.arg1.path]))

(* C2: add_metadata on an existing file of an initialized repository       *)
(* returns with the merged record written to the metadata file, whose      *)
(* user mapping contains the metadata just added.                          *)
C2_Persisted ==
  (last.op = "add_metadata" /\ LastFileExists /\ ~IsNone(last.arg2) /\ Initialized)
    => /\ last.exc = "None"
       /\ MetaFile(last.arg1.path) \in DOMAIN files
       /\ LET c == _load_compressed_file(dirs, files, MetaFile(last.arg1.path)) IN
          /\ c.exc = "None"
          /\ IsDict(c.value)
          /\ "user" \in DOMAIN c.value.dict
          /\ \A k \in DOMAIN Contribution(last.arg2) :
               /\ k \in DOMAIN c.value.dict["user"].dict
               /\ c.value.dict["user"].dict[k] = Contribution(last.arg2)[k]

(* C3: add_metadata wraps its metadata as {"data": metadata} only when it  *)
(* is not a mapping; a mapping is used as given.                           *)
C3_WrapOnlyNonMapping ==
  (last.op = "add_metadata" /\ ~IsNone(last.arg1) /\ ~IsNone(last.arg2))
    => last.metadata =
         (IF IsDict(last.arg2) THEN last.arg2 ELSE DictV("data" :> last.arg2))

(* C4: get_metadata of a name that is not on disk and has no metadata      *)
(* record raises FileNotFoundError and changes neither the files, the      *)
(* directories nor the source list.                                        *)
C4_MissingFileNotFound ==
  [][(/\ last'.op = "get_metadata"
      /\ IsPathStr(last'.arg1)
      /\ ~os_path_exists(last'.arg1.path)
      /\ MetaFile(last'.arg1.path) \notin DOMAIN files)
       => (/\ last'.exc = "FileNotFoundError"
           /\ files' = files
           /\ dirs' = dirs
           /\ sourceList' = sourceList)]_vars

C4_Witness ==
  /\ last.op = "get_metadata"
  /\ last.arg1 = PathV(NoSuch)
  /\ last.exc = "FileNotFoundError"
  /\ Initialized

(* C5: after add_file_to_cache(filename, D) on an initialized repository   *)
(* where D/filename exists, the cache entry of filename exists and has     *)
(* the bytes of D/filename.                                                *)
C5_CacheCopy ==
  (/\ last.op = "add_file_to_cache"
   /\ ~IsNone(last.arg2)
   /\ (last.arg2.path \o last.arg1.path) \in DOMAIN files
   /\ Initialized)
    => /\ CacheEntry(Basename(last.arg1.path)) \in DOMAIN files
       /\ files[CacheEntry(Basename(last.arg1.path))]
            = files[last.arg2.path \o last.arg1.path]

(* C6: the cache entry of a name holds the content of the source file most *)
(* recently added under that name, and the cache keeps no other file of    *)
(* that name.                                                              *)
C6_LastWriteWins ==
  \A name \in DOMAIN lastAdded :
    /\ CacheEntry(name) \in DOMAIN files
    /\ files[CacheEntry(name)] = lastAdded[name]
    /\ \A p \in DOMAIN files :
         (SubSeq(p, 1, Len(BasePath) + 1) = BasePath \o <<"cache">> /\ Basename(p) = name)
           => p = CacheEntry(name)

(* the sixteen lowercase hexadecimal digits *)
HexChars ==
  {"0", "1", "2", "3", "4", "5", "6", "7", "8", "9", "a", "b", "c", "d", "e", "f"}

(* C7: once init_setup has completed, meta/dir, meta/file and cache exist, *)
(* all 256 two-hex-character shards exist under cache and under meta/file, *)
(* and so does the shard of every name.                                    *)
C7_ShardsExist ==
  Initialized =>
    /\ {BasePath \o <<"meta", "dir">>, BasePath \o <<"meta", "file">>,
        BasePath \o <<"cache">>} \subseteq dirs
    /\ \A x \in HexChars, y \in HexChars :
         /\ (BasePath \o <<"cache", x \o y>>) \in dirs
         /\ (BasePath \o <<"meta", "file", x \o y>>) \in dirs
    /\ \A n \in DOMAIN Sha1Table :
         /\ (BasePath \o <<"cache", Shard(sha1_hexdigest(n))>>) \in dirs
         /\ (BasePath \o <<"meta", "file", Shard(sha1_hexdigest(n))>>) \in dirs

C7_Witness == last.op = "init_setup" /\ last.exc = "None" /\ Initialized

(* C8: init_setup on an initialized repository raises FileExistsError and  *)
(* leaves the directories and the files as they were.                      *)
C8_SecondInitRaises ==
  [][(last'.op = "init_setup" /\ Initialized)
       => (last'.exc = "FileExistsError" /\ dirs' = dirs /\ files' = files)]_vars

C8_Witness ==
  /\ last.op = "init_setup"
  /\ last.exc = "FileExistsError"
  /\ StateFile \in DOMAIN files

(* C9: add_source with None, with a single path that is not an existing    *)
(* directory or with a value that is neither a str nor a list raises       *)
(* TypeError and leaves the source list unchanged; with a list it raises   *)
(* nothing and registers exactly the items that are existing directories.  *)
C9_RejectsNonDirectories ==
  [][last'.op = "add_source" =>
       LET ds == last'.arg1 IN
       /\ (IsNone(ds) \/ (~IsList(ds) /\ ~IsPathStr(ds))
             \/ (IsPathStr(ds) /\ ds.path \notin dirs))
            => (last'.exc = "TypeError" /\ sourceList' = sourceList)
       /\ IsList(ds)
            => /\ last'.exc = "None"
               /\ Len(sourceList') >= Len(sourceList)
               /\ \A p \in {DataA, DataC, NoSuch, FileAF} :
                    Cardinality({i \in 1..Len(sourceList') : sourceList'[i] = p})
                      - Cardinality({i \in 1..Len(sourceList) : sourceList[i] = p})
                    = IF p \in dirs
                      THEN Cardinality({i \in 1..Len(ds.list) : ds.list[i] = p})
                      ELSE 0]_vars

C9_Witness ==
  /\ last.op = "add_source"
  /\ last.arg1 = ListV(<<DataA, NoSuch>>)
  /\ last.exc = "None"
  /\ sourceList = <<DataA>>

(* C10: every add_source call appends to the source list, in order, the    *)
(* valid directories it was given: what was there stays in place,          *)
(* duplicates are kept, and each appended element is a directory when it   *)
(* is inserted.                                                            *)
C10_AppendsValidInOrder ==
  [][last'.op = "add_source" =>
       LET ds == last'.arg1
           given == IF IsList(ds) THEN ds.list
                    ELSE IF IsPathStr(ds) THEN <<ds.path>> ELSE <<>>
           valid == SelectSeq(given, os_path_isdir)
       IN /\ sourceList' = sourceList \o valid
          /\ \A i \in (Len(sourceList) + 1)..Len(sourceList') :
               sourceList'[i] \in dirs]_vars

C10_Witness ==
  /\ last.op = "add_source"
  /\ Len(sourceList) = 2
  /\ sourceList[1] = sourceList[2]

(* C11: load_states raises nothing, and when sources.state is missing, is  *)
(* corrupt or holds no record with a datasource entry the source list is   *)
(* what it was before the call.                                            *)
C11_LoadNeverRaises ==
  [][last'.op = "load_states" =>
       /\ last'.exc = "None"
       /\ (StateFile \notin DOMAIN files \/ files[StateFile] \in BadStateContents)
            => sourceList' = sourceList]_vars

C11_Witness ==
  /\ last.op = "load_states"
  /\ StateFile \in DOMAIN files
  /\ files[StateFile] = [raw |-> "garbage"]
  /\ sourceList = <<DataA, DataC>>

(* C12: when save_states has succeeded with list L and the state file has  *)
(* not been touched since, load_states sets the source list to exactly L,  *)
(* whatever the list was before the call.                                  *)
C12_SavedListRestored ==
  [][(last'.op = "load_states" /\ StateFile \in DOMAIN saved)
       => sourceList' = saved[StateFile].dict["datasource"].list]_vars

C12_Witness ==
  /\ last.op = "load_states"
  /\ StateFile \in DOMAIN saved
  /\ saved[StateFile] = DictV("datasource" :> ListV(<<DataA, DataC>>))
  /\ sourceList = <<DataA, DataC>>
  /\ DataC \notin dirs

(* C13: _load_compressed_file(p) returns the value of the most recent      *)
(* successful _save_and_compress(p, v), whatever was saved there before.   *)
C13_RoundTrip ==
  [][(/\ last'.op = "_load_compressed_file"
      /\ last'.arg1.path \in DOMAIN saved)
       => (last'.exc = "None" /\ last'.value = saved[last'.arg1.path])]_vars

C13_Witness ==
  /\ last.op = "_load_compressed_file"
  /\ last.arg1 = PathV(BlobFile)
  /\ last.exc = "None"
  /\ last.value = DictV(("sha1" :> StrV("fe05bcdcdc4928012781a5f1a2a77cbb5398e106"))
                          @@ ("user" :> DictV("a" :> IntV(1))))

(* the exceptions that are an IOError (OSError) *)
IOErrors ==
  {"FileNotFoundError", "IsADirectoryError", "NotADirectoryError", "PermissionError"}

(* C14: a save into a directory that does not exist raises an IOError and  *)
(* creates nothing; a load of a path that does not exist raises            *)
(* FileNotFoundError; neither changes a file or a directory.               *)
C14_BlobErrors ==
  [][/\ (/\ last'.op = "_save_and_compress"
         /\ Dirname(last'.arg1.path) \notin dirs)
          => (last'.exc \in IOErrors /\ files' = files /\ dirs' = dirs)
     /\ (last'.op = "save_states" /\ BasePath \notin dirs)
          => (last'.exc \in IOErrors /\ files' = files /\ dirs' = dirs)
     /\ (/\ last'.op = "_load_compressed_file"
         /\ ~os_path_exists(last'.arg1.path))
          => (last'.exc = "FileNotFoundError" /\ files' = files /\ dirs' = dirs)]_vars

C14_Witness ==
  /\ last.op = "_save_and_compress"
  /\ last.arg1 = PathV(OrphanFile)
  /\ last.exc = "FileNotFoundError"
  /\ BlobFile \in DOMAIN files

(* C17: when a blob store call, load_states or _hash_file_contents leaves, *)
(* by return or by exception, it has closed every file it opened.          *)
C17_HandlesReleased ==
  last.op \in {"_save_and_compress", "_load_compressed_file", "save_states",
               "load_states", "_hash_file_contents"}
    => last.open = 0

(* C15: after scan_files(source) the snapshot of source holds a fileList   *)
(* with exactly the immediate entries of source that are not directories,  *)
(* whatever the working directory is.                                      *)
C15_ScanListsFiles ==
  (last.op = "scan_files" /\ last.exc = "None")
    => LET source == last.arg1.path
           snap == _load_compressed_file(dirs, files, SnapshotFile(source))
       IN /\ snap.exc = "None"
          /\ IsDict(snap.value)
          /\ DOMAIN snap.value.dict = {"fileList"}
          /\ {snap.value.dict["fileList"].list[i] :
                i \in 1..Len(snap.value.dict["fileList"].list)}
               = {n \in Entries(dirs, files, source) : (source \o <<n>>) \notin dirs}

Writers ==
  {"add_file_to_cache", "add_metadata", "_write_metadata", "scan_files", "save_states"}

(* C16: add_file_to_cache, add_metadata, _write_metadata, scan_files and   *)
(* save_states leave the set of directories unchanged, of the operations   *)
(* only init_setup creates directories, and a write into a repository that *)
(* init_setup has not created fails and writes nothing.                    *)
C16_WritersCreateNoDirectory ==
  [][/\ last'.op \in Writers
          => /\ dirs' = dirs
             /\ ~Initialized => (last'.exc # "None" /\ files' = files)
     /\ dirs' # dirs => last'.op \in {"init_setup", "env"}]_vars

C16_Witness ==
  /\ last.op = "scan_files"
  /\ last.exc = "FileNotFoundError"
  /\ ~Initialized
  /\ DataA \in dirs

(* both callers have finished a call on the same existing file of an       *)
(* initialized repository, one adding the key a and the other the key b    *)
BothFinished ==
  /\ Initialized
  /\ \A p \in Procs : procs[p].pc = "done" /\ procs[p].filename = PathV(FileAF)
  /\ {procs[p].metadata : p \in Procs}
       = {WrapMetadata(DictV("a" :> IntV(1))), WrapMetadata(DictV("b" :> IntV(2)))}
  /\ last.op = "add_metadata"
  /\ Dirname(MetaFile(FileAF)) \in dirs

(* C18: two interleaved add_metadata calls on the same file with different *)
(* keys both return successfully and leave a stored record, which holds    *)
(* the key of at least one of them (the lost update keeps one key only).   *)
C18_InterleavedCallsReturn ==
  BothFinished
    => /\ \A p \in Procs : procs[p].exc = "None"
       /\ MetaFile(FileAF) \in DOMAIN files
       /\ LET c == _load_compressed_file(dirs, files, MetaFile(FileAF)) IN
          /\ c.exc = "None"
          /\ "user" \in DOMAIN c.value.dict
          /\ DOMAIN c.value.dict["user"].dict \cap {"a", "b"} # {}

(* no state has two finished calls that both returned successfully *)
NoLostUpdate ==
  ~(/\ \A p \in Procs : procs[p].pc = "done" /\ procs[p].exc = "None"
    /\ procs[1].filename = procs[2].filename)

(* C19: get_metadata creates, modifies and removes no file and no          *)
(* directory and leaves the source list unchanged, whether it succeeds or  *)
(* fails; for an existing file whose record has no user key (here: no      *)
(* record is stored, so the record is the one built from the content hash) *)
(* it returns an empty mapping.                                            *)
C19_GetMetadataReadOnly ==
  [][last'.op = "get_metadata"
       => /\ files' = files
          /\ dirs' = dirs
          /\ sourceList' = sourceList
          /\ (/\ IsPathStr(last'.arg1)
              /\ last'.arg1.path \in DOMAIN files
              /\ MetaFile(last'.arg1.path) \notin DOMAIN files)
               => (last'.exc = "None" /\ last'.value = DictV(EmptyFn))]_vars

(* the frame half of C19 alone *)
GetMetadataFrame ==
  [][last'.op = "get_metadata"
       => (files' = files /\ dirs' = dirs /\ sourceList' = sourceList)]_vars

MetadataOps == {"get_metadata", "add_metadata", "_write_metadata"}

(* C20: get_metadata, add_metadata and _write_metadata called with a name  *)
(* that does not exist on disk at the time of the call raise               *)
(* FileNotFoundError, return no record and change no file, also when a     *)
(* metadata record is stored for that name.                                *)
C20_MetadataNeedsLiveFile ==
  [][(/\ last'.op \in MetadataOps
      /\ IsPathStr(last'.arg1)
      /\ (~IsNone(last'.arg2) \/ last'.op = "get_metadata")
      /\ ~os_path_exists(last'.arg1.path))
       => /\ last'.exc = "FileNotFoundError"
          /\ last'.value = NoneV
          /\ files' = files]_vars

C20_Witness ==
  /\ last.op = "get_metadata"
  /\ last.arg1 = PathV(FileAF)
  /\ last.exc = "FileNotFoundError"
  /\ FileAF \notin DOMAIN files
  /\ MetaFile(FileAF) \in DOMAIN files
  /\ _load_compressed_file(dirs, files, MetaFile(FileAF)).exc = "None"

====
